---- MODULE Spec2Model ----
(***************************************************************************)
(* A model of malloc-info-rs: the owned memory stream (src/memstream.rs),  *)
(* the malloc_info entry point (src/lib.rs) and the report schema          *)
(* (src/info.rs).                                                          *)
(*                                                                         *)
(* The native primitives the crate calls (open_memstream, fflush, fclose,  *)
(* free, malloc_info) are modelled at their call sites with the behaviour  *)
(* of open_memstream(3): the stream owns a growable buffer, a write that   *)
(* exceeds the capacity moves the buffer to a new allocation and releases  *)
(* the old one, and the caller's two cells (buf and buf_size) are updated    *)
(* only by fflush and fclose.                                              *)
(*                                                                         *)
(* Bytes are abstracted to tokens: one token is one markup element of the  *)
(* report (an open tag with its attributes and children), so a byte        *)
(* sequence is a sequence of elements.                                     *)
(***************************************************************************)
EXTENDS Integers, Sequences, FiniteSets, TLC

VARIABLES
    pc,        \* pc[t]: position of thread t inside malloc_info / the stream API
    fp,        \* fp[t]: MemStream.fp of thread t's stream (Null: none)
    buf,       \* buf[t]: the boxed buffer pointer cell
    buf_size,  \* buf_size[t]: the boxed length cell
    pos,       \* pos[t]: position of the std::io::Cursor wrapping the stream
    files,     \* native streams, by handle
    alloc,     \* alloc[a]: the thread whose stream allocated address a, 0 when free
    errno,     \* errno[t]: the thread-local last-error value
    result,    \* result[t]: what malloc_info returned
    ev,        \* ev[t]: history (a sequence of events) of the calls thread t made
    view,      \* view[t]: the last byte view as_ref returned to thread t
    doc,       \* the report document handed to the decoder
    decoded,   \* what the decoder returned for doc
    overlapped_lists  \* the decoder was built to accept overlapped lists

vars == <<pc, fp, buf, buf_size, pos, files, alloc, errno, result, ev, view, doc,
          decoded, overlapped_lists>>

streamVars == <<pc, fp, buf, buf_size, pos, files, alloc, errno, result, ev, view>>

decodeVars == <<doc, decoded>>

(***************************************************************************)
(* Bounds                                                                  *)
(***************************************************************************)
NumHandles == 2     \* native handles that can be open at once
NumAddrs == 3       \* heap addresses the allocator can hand out
NumErrnos == 2      \* distinct platform error codes
InitCap == 2        \* capacity of a fresh native buffer (BUFSIZ, scaled down)
MaxData == 5        \* most tokens a stream holds in the stream API runs
MaxOps == 7         \* most API operations in a stream API run
MaxChildren == 5    \* most children of the report's root element
MaxBuckets == 3     \* most bucket elements of a sizes section

Null == 0
Threads == {1, 2}
Handles == 1..NumHandles
Addrs == 1..NumAddrs
Errnos == 1..NumErrnos

(***************************************************************************)
(* Tokens: markup elements                                                 *)
(***************************************************************************)
Elem(n, as, ks) == [name |-> n, attrs |-> as, kids |-> ks]

HasAttr(e, k) == \E p \in e.attrs : p[1] = k

Attr(e, k) == (CHOOSE p \in e.attrs : p[1] = k)[2]

Garbage == Elem("?", {}, <<>>)

(***************************************************************************)
(* The report schema (src/info.rs): what the serde-derived Deserialize     *)
(* implementations accept.  A decoder returns Ok(v) or Err(message); an    *)
(* Option is a sequence of length 0 (None) or 1 (Some).                    *)
(***************************************************************************)
Ok(x) == [ok |-> TRUE, v |-> <<x>>, err |-> ""]

Err(m) == [ok |-> FALSE, v |-> <<>>, err |-> m]

Some(x) == <<x>>

None == <<>>

\* The decimal texts the model uses, with the numbers they denote.
UsizeText == {<<"0", 0>>, <<"1", 1>>, <<"2", 2>>, <<"01", 1>>, <<"32", 32>>}

\* usize::from_str on an attribute value: any other text is not a number.
usize_de(s) ==
    IF \E p \in UsizeText : p[1] = s
    THEN Ok((CHOOSE p \in UsizeText : p[1] = s)[2])
    ELSE Err("invalid digit found in string")

\* A required attribute of numeric type.
usize_attr(e, k) ==
    IF HasAttr(e, k) THEN usize_de(Attr(e, k)) ELSE Err("missing field")

\* The first error among the results rs (a sequence), in order.
FirstErr(rs) == rs[CHOOSE i \in 1..Len(rs) : ~rs[i].ok /\ \A j \in 1..(i - 1) : rs[j].ok]

\* A Vec<T> from the results rs of decoding its elements: all the values, in
\* order, or the first error.
Vec_de(rs) ==
    IF \E i \in 1..Len(rs) : ~rs[i].ok
    THEN FirstErr(rs)
    ELSE Ok([i \in 1..Len(rs) |-> rs[i].v[1]])

Named(es, n) == SelectSeq(es, LAMBDA e : e.name = n)

\* The elements named n are adjacent siblings.
Contiguous(es, n) ==
    \A i, j, k \in 1..Len(es) :
        (i < j /\ j < k /\ es[i].name = n /\ es[k].name = n) => es[j].name = n

\* enum AspaceType, rename_all = "kebab-case", with #[serde(other)] Other.
\* A mutant: no fallback variant.
AspaceTypeStrict_de(s) ==
    CASE s = "total" -> Ok("Total")
      [] s = "mprotect" -> Ok("Mprotect")
      [] s = "subheaps" -> Ok("Subheaps")
      [] OTHER -> Err("unknown variant")

AspaceType_de(s) ==
    CASE s = "total" -> Ok("Total")
      [] s = "mprotect" -> Ok("Mprotect")
      [] s = "subheaps" -> Ok("Subheaps")
      [] OTHER -> Ok("Other")

\* struct Aspace { @type, @size }
Aspace_de(e) ==
    IF ~HasAttr(e, "type")
    THEN Err("missing field")
    ELSE LET ty == AspaceType_de(Attr(e, "type"))
             sz == usize_attr(e, "size")
         IN IF ~ty.ok THEN ty
            ELSE IF ~sz.ok THEN sz
            ELSE Ok([type |-> ty.v[1], size |-> sz.v[1]])

\* enum SystemType
\* A mutant: no fallback variant.
SystemTypeStrict_de(s) ==
    CASE s = "current" -> Ok("Current")
      [] s = "max" -> Ok("Max")
      [] OTHER -> Err("unknown variant")

SystemType_de(s) ==
    CASE s = "current" -> Ok("Current")
      [] s = "max" -> Ok("Max")
      [] OTHER -> Ok("Other")

\* struct System { @type, @size }
System_de(e) ==
    IF ~HasAttr(e, "type")
    THEN Err("missing field")
    ELSE LET ty == SystemType_de(Attr(e, "type"))
             sz == usize_attr(e, "size")
         IN IF ~ty.ok THEN ty
            ELSE IF ~sz.ok THEN sz
            ELSE Ok([type |-> ty.v[1], size |-> sz.v[1]])

\* enum TotalType
\* A mutant: no fallback variant.
TotalTypeStrict_de(s) ==
    CASE s = "fast" -> Ok("Fast")
      [] s = "rest" -> Ok("Rest")
      [] s = "mmap" -> Ok("Mmap")
      [] OTHER -> Err("unknown variant")

TotalType_de(s) ==
    CASE s = "fast" -> Ok("Fast")
      [] s = "rest" -> Ok("Rest")
      [] s = "mmap" -> Ok("Mmap")
      [] OTHER -> Ok("Other")

\* struct Total { @type, @count, @size }
Total_de(e) ==
    IF ~HasAttr(e, "type")
    THEN Err("missing field")
    ELSE LET ty == TotalType_de(Attr(e, "type"))
             ct == usize_attr(e, "count")
             sz == usize_attr(e, "size")
         IN IF ~ty.ok THEN ty
            ELSE IF ~ct.ok THEN ct
            ELSE IF ~sz.ok THEN sz
            ELSE Ok([type |-> ty.v[1], count |-> ct.v[1], size |-> sz.v[1]])

\* enum Size { Size {..}, Unsorted {..} }: the variant is the element's name.
SizeVariant(n) ==
    CASE n = "size" -> Ok("Size")
      [] n = "unsorted" -> Ok("Unsorted")
      [] OTHER -> Err("unknown variant")

Size_de(e) ==
    LET va == SizeVariant(e.name)
        fr == usize_attr(e, "from")
        to == usize_attr(e, "to")
        tl == usize_attr(e, "total")
        ct == usize_attr(e, "count")
    IN IF ~va.ok THEN va
       ELSE IF ~fr.ok THEN fr
       ELSE IF ~to.ok THEN to
       ELSE IF ~tl.ok THEN tl
       ELSE IF ~ct.ok THEN ct
       ELSE Ok([variant |-> va.v[1], from |-> fr.v[1], to |-> to.v[1],
                total |-> tl.v[1], count |-> ct.v[1]])

\* struct Sizes { $value: Option<Vec<Size>> }: every child element is a value; with
\* no child the field is missing, and a missing Option field is None.
\* A mutant: a section with no bucket is Some(empty) instead of None.
SizesEmptyAsVec_de(e) ==
    LET bs == Vec_de([i \in 1..Len(e.kids) |-> Size_de(e.kids[i])])
    IN IF ~bs.ok THEN bs ELSE Ok([sizes |-> Some(bs.v[1])])

Sizes_de(e) ==
    IF e.kids = <<>>
    THEN Ok([sizes |-> None])
    ELSE LET bs == Vec_de([i \in 1..Len(e.kids) |-> Size_de(e.kids[i])])
         IN IF ~bs.ok THEN bs ELSE Ok([sizes |-> Some(bs.v[1])])

\* struct Heap { @nr, sizes: Option<Sizes> }: children of other names are unknown
\* fields and are skipped; a second sizes child is a duplicate field.
Heap_de(e) ==
    LET nr == usize_attr(e, "nr")
        ss == Named(e.kids, "sizes")
        sz == IF ss = <<>> THEN Ok(None) ELSE Sizes_de(ss[1])
    IN IF ~nr.ok THEN nr
       ELSE IF Len(ss) > 1 THEN Err("duplicate field")
       ELSE IF ~sz.ok THEN sz
       ELSE Ok([nr |-> nr.v[1], sizes |-> IF ss = <<>> THEN None ELSE Some(sz.v[1])])

\* A Vec<T> field of the root: the children named n among es, rs the results of
\* decoding them.  The field is required, so no such child is a missing field.
\* Unless the decoder was built to accept overlapped lists, children of one name
\* separated by another element make the field appear twice.
\* A mutant: the field is #[serde(default)], a missing one is the empty Vec.
FieldDefault_de(rs, es, n, overlapped) ==
    IF Named(es, n) = <<>> THEN Ok(<<>>)
    ELSE IF ~overlapped /\ ~Contiguous(es, n) THEN Err("duplicate field")
    ELSE Vec_de(rs)

Field_de(rs, es, n, overlapped) ==
    IF Named(es, n) = <<>> THEN Err("missing field")
    ELSE IF ~overlapped /\ ~Contiguous(es, n) THEN Err("duplicate field")
    ELSE Vec_de(rs)

Heaps_de(es) == [i \in 1..Len(Named(es, "heap")) |-> Heap_de(Named(es, "heap")[i])]

Totals_de(es) == [i \in 1..Len(Named(es, "total")) |-> Total_de(Named(es, "total")[i])]

Systems_de(es) == [i \in 1..Len(Named(es, "system")) |-> System_de(Named(es, "system")[i])]

Aspaces_de(es) == [i \in 1..Len(Named(es, "aspace")) |-> Aspace_de(Named(es, "aspace")[i])]

\* The elements es with their descendants, in document order.
RECURSIVE Flatten(_)
Flatten(es) ==
    IF es = <<>> THEN <<>>
    ELSE <<Head(es)>> \o Flatten(Head(es).kids) \o Flatten(Tail(es))

\* struct Malloc { @version, heap, total, system, aspace }
MallocFields_de(root, es, overlapped) ==
    LET hs == Field_de(Heaps_de(root.kids), root.kids, "heap", overlapped)
        ts == Field_de(Totals_de(es), es, "total", overlapped)
        ys == Field_de(Systems_de(es), es, "system", overlapped)
        as == Field_de(Aspaces_de(es), es, "aspace", overlapped)
    IN IF ~HasAttr(root, "version") THEN Err("missing field")
       ELSE IF ~hs.ok THEN hs
       ELSE IF ~ts.ok THEN ts
       ELSE IF ~ys.ok THEN ys
       ELSE IF ~as.ok THEN as
       ELSE Ok([version |-> Attr(root, "version"), heaps |-> hs.v[1],
                total |-> ts.v[1], system |-> ys.v[1], aspace |-> as.v[1]])

\* A mutant: the aggregates of every nesting level are collected into the root.
MallocNested_de(root, overlapped) == MallocFields_de(root, Flatten(root.kids), TRUE)

Malloc_de(root, overlapped) == MallocFields_de(root, root.kids, overlapped)

\* The tokens that open and close the root element in a byte stream.
RootOpen(version) == Elem("malloc", version, <<>>)

RootClose == Elem("/malloc", {}, <<>>)

IsChild(e) == e.name \notin {"malloc", "/malloc", "?"}

\* quick_xml::de::from_reader: the bytes must be one complete root element.
from_reader(bytes, overlapped) ==
    IF Len(bytes) < 2 THEN Err("unexpected end of input")
    ELSE IF bytes[1].name # "malloc" THEN Err("syntax")
    ELSE IF bytes[Len(bytes)] # RootClose THEN Err("unexpected end of input")
    ELSE IF \E i \in 2..(Len(bytes) - 1) : ~IsChild(bytes[i]) THEN Err("syntax")
    ELSE Malloc_de(Elem("malloc", bytes[1].attrs, SubSeq(bytes, 2, Len(bytes) - 1)),
                   overlapped)

(***************************************************************************)
(* The elements and reports the model draws its inputs from                *)
(***************************************************************************)
V1 == {<<"version", "1">>}

TotalEl(ty, ct, sz) == Elem("total", {<<"type", ty>>, <<"count", ct>>, <<"size", sz>>}, <<>>)

SystemEl(ty, sz) == Elem("system", {<<"type", ty>>, <<"size", sz>>}, <<>>)

AspaceEl(ty, sz) == Elem("aspace", {<<"type", ty>>, <<"size", sz>>}, <<>>)

Bucket(n, fr, to) ==
    Elem(n, {<<"from", fr>>, <<"to", to>>, <<"total", "32">>, <<"count", "1">>}, <<>>)

HeapEl(nr, ks) == Elem("heap", {<<"nr", nr>>}, ks)

SizesEl(ks) == Elem("sizes", {}, ks)

\* A heap with no sizes section and aggregates of its own.
HeapPlain == HeapEl("0", <<TotalEl("fast", "1", "32"), SystemEl("max", "32")>>)

\* A heap with an empty sizes section.
HeapEmptySizes == HeapEl("1", <<SizesEl(<<>>), AspaceEl("total", "32")>>)

\* A heap with two buckets.
HeapBuckets == HeapEl("2", <<SizesEl(<<Bucket("size", "1", "2"), Bucket("unsorted", "2", "32")>>)>>)

\* The report of the malloc_info(3) example, shortened: one heap, then the
\* aggregates of the process.
GoodReport ==
    <<RootOpen(V1), HeapEmptySizes, TotalEl("fast", "0", "0"), SystemEl("current", "32"),
      AspaceEl("total", "32"), RootClose>>

\* A root element with no children.
EmptyRootReport == <<RootOpen(V1), RootClose>>

Reports == {GoodReport, EmptyRootReport}

(***************************************************************************)
(* The native layer.  A world w is the record of the state the native      *)
(* calls read and write, with ret the value the last call returned and res *)
(* the Result the last Rust function returned.  Every native call appends  *)
(* an event to the calling thread's history ev[t]:                         *)
(*   op   the call            arg  the handle or address it was given      *)
(*   ret  what it returned    ub   the call was undefined behaviour        *)
(*   own  the handle or address belonged to the calling thread's stream    *)
(*   err  the thread's errno when the call returned                        *)
(*   data the bytes a write stored                                         *)
(***************************************************************************)
ClosedFile == [open |-> FALSE, data |-> <<>>, base |-> Null, cap |-> 0, cell |-> 0]

NoResult ==
    [tag |-> "none", repr |-> "", inner |-> "", errno |-> 0, msg |-> "", val |-> <<>>]

World == [fp |-> fp, buf |-> buf, buf_size |-> buf_size, files |-> files,
          alloc |-> alloc, errno |-> errno, ev |-> ev, ret |-> 0, res |-> NoResult]

Event(o, a, r, u, m) ==
    [op |-> o, arg |-> a, ret |-> r, ub |-> u, own |-> m, err |-> 0, data |-> <<>>]

WriteEvent(o, a, r, u, m, bytes) == [Event(o, a, r, u, m) EXCEPT !.data = bytes]

\* The history of thread t with event e added; en is errno when the call returned.
LogE(w, t, e, en) == Append(w.ev[t], [e EXCEPT !.err = en])

Log(w, t, e) == LogE(w, t, e, w.errno[t])

IsOpen(w, h) == h \in Handles /\ w.files[h].open

FreeHandles(w) == {h \in Handles : ~w.files[h].open}

FreeAddrs(w) == {a \in Addrs : w.alloc[a] = 0}

\* Handle h is a stream thread t opened.
OwnHandle(w, t, h) == IsOpen(w, h) /\ w.files[h].cell = t

\* Some open stream still uses address p as its buffer.
InUse(w, p) == \E h \in Handles : w.files[h].open /\ w.files[h].base = p

\* Capacity after growing cap until need tokens fit.
RECURSIVE GrowCap(_, _)
GrowCap(cap, need) == IF cap >= need THEN cap ELSE GrowCap(2 * cap + 1, need)

\* open_memstream(&buf, &buf_size): h and a are the handle and the first buffer the
\* platform picks, Null when it has none to give; e is the error code of a failure.
\* The cells are not written before the first flush.
open_memstream(w, t, h, a, e) ==
    IF h # Null /\ a # Null
    THEN [w EXCEPT !.files[h] = [open |-> TRUE, data |-> <<>>, base |-> a,
                                 cap |-> InitCap, cell |-> t],
                   !.alloc[a] = t,
                   !.ev[t] = Log(w, t, Event("open_memstream", Null, h, FALSE, TRUE)),
                   !.ret = h]
    ELSE [w EXCEPT !.errno[t] = e,
                   !.ev[t] = LogE(w, t, Event("open_memstream", Null, Null, FALSE, TRUE), e),
                   !.ret = Null]

\* fflush(h).  out = "ok": the cells of the stream are set to the current buffer and
\* length, returns 0.  out = "fail": returns EOF with errno e, cells untouched.
\* out = "null": returns 0 and leaves the cells untouched (the postcondition the
\* caller of the first flush checks for).  A handle that is not open is undefined
\* behaviour: either status may come back.
fflush(w, t, h, out, e) ==
    LET r == IF out = "fail" THEN -1 ELSE 0
        en == IF IsOpen(w, h) /\ out = "fail" THEN e ELSE w.errno[t]
        logged == LogE(w, t, Event("fflush", h, r, ~IsOpen(w, h), OwnHandle(w, t, h)), en)
    IN IF ~IsOpen(w, h)
       THEN [w EXCEPT !.ev[t] = logged, !.ret = r]
       ELSE IF out = "fail"
       THEN [w EXCEPT !.errno[t] = e, !.ev[t] = logged, !.ret = r]
       ELSE IF out = "null"
       THEN [w EXCEPT !.ev[t] = logged, !.ret = r]
       ELSE LET f == w.files[h] IN
            [w EXCEPT !.buf[f.cell] = f.base,
                      !.buf_size[f.cell] = Len(f.data),
                      !.ev[t] = logged,
                      !.ret = r]

\* A write of bytes through handle h (fwrite, or the writes malloc_info makes).
\* When the bytes do not fit, the stream allocates a larger buffer at a (Null: out
\* of memory, nothing is written), copies, and frees the old one.  ret is the
\* number of tokens written.
write(w, t, h, bytes, a) ==
    IF ~IsOpen(w, h)
    THEN [w EXCEPT !.ev[t] = Log(w, t, Event("write", h, 0, TRUE, FALSE)), !.ret = 0]
    ELSE LET f == w.files[h]
             need == Len(f.data) + Len(bytes)
             fits == need <= f.cap
             n == IF fits \/ a # Null THEN Len(bytes) ELSE 0
             logged == Log(w, t, WriteEvent("write", h, n, FALSE, OwnHandle(w, t, h),
                                            IF n = 0 THEN <<>> ELSE bytes))
         IN IF fits
            THEN [w EXCEPT !.files[h].data = f.data \o bytes,
                           !.ev[t] = logged, !.ret = n]
            ELSE IF a = Null
            THEN [w EXCEPT !.ev[t] = logged, !.ret = n]
            ELSE [w EXCEPT !.files[h].data = f.data \o bytes,
                           !.files[h].base = a,
                           !.files[h].cap = GrowCap(f.cap, need),
                           !.alloc = [@ EXCEPT ![f.base] = 0, ![a] = f.cell],
                           !.ev[t] = logged, !.ret = n]

\* fclose(h): the final buffer (moved to a when a # Null) and the final length are
\* stored in the cells and the handle is released; the buffer stays allocated, it
\* is the caller's to free.  e # 0: the call changes errno.  A handle that is not
\* open (null, or closed before) is undefined behaviour.
fclose(w, t, h, a, e) ==
    IF ~IsOpen(w, h)
    THEN [w EXCEPT !.ev[t] = Log(w, t, Event("fclose", h, -1, TRUE, FALSE)), !.ret = -1]
    ELSE LET f == w.files[h]
             final == IF a = Null THEN f.base ELSE a
         IN [w EXCEPT !.files[h] = ClosedFile,
                      !.alloc = [@ EXCEPT ![f.base] = 0, ![final] = f.cell],
                      !.buf[f.cell] = final,
                      !.buf_size[f.cell] = Len(f.data),
                      !.errno[t] = IF e = 0 THEN @ ELSE e,
                      !.ev[t] = LogE(w, t, Event("fclose", h, 0, FALSE, f.cell = t),
                                     IF e = 0 THEN w.errno[t] ELSE e),
                      !.ret = 0]

\* free(p): a no-op on null; releasing an address that is not allocated (a double
\* free) or the buffer of a stream that is still open is undefined behaviour.
free(w, t, p) ==
    IF p = Null
    THEN [w EXCEPT !.ev[t] = Log(w, t, Event("free", p, 0, FALSE, TRUE))]
    ELSE IF w.alloc[p] = 0
    THEN [w EXCEPT !.ev[t] = Log(w, t, Event("free", p, 0, TRUE, FALSE))]
    ELSE [w EXCEPT !.alloc[p] = 0,
                   !.ev[t] = Log(w, t, Event("free", p, 0, InUse(w, p), w.alloc[p] = t))]

\* errno::errno(): reads the thread-local last-error value into ret.
errno_read(w, t) ==
    [w EXCEPT !.ev[t] = Log(w, t, Event("errno", Null, w.errno[t], FALSE, TRUE)),
              !.ret = w.errno[t]]

\* malloc_info(0, h): writes the report through h and returns 0, or (out = "fail")
\* writes its first k tokens and returns -1 with errno e.  A write that cannot
\* allocate fails the call.
malloc_info_native(w, t, h, report, out, k, a, e) ==
    LET bytes == IF out = "fail" THEN SubSeq(report, 1, k) ELSE report
        w1 == write(w, t, h, bytes, a)
        r == IF out = "fail" \/ w1.ret < Len(bytes) THEN -1 ELSE 0
        w2 == IF r = 0 THEN w1 ELSE [w1 EXCEPT !.errno[t] = e]
    IN [w2 EXCEPT !.ev[t] = Log(w2, t, Event("malloc_info", h, r, ~IsOpen(w, h),
                                             OwnHandle(w, t, h))),
                  !.ret = r]

(***************************************************************************)
(* The owned memory stream (src/memstream.rs)                              *)
(***************************************************************************)
MsOk == [NoResult EXCEPT !.tag = "Ok"]

\* memstream::Error::LibC(errno)
MsLibC(e) == [NoResult EXCEPT !.tag = "Err", !.inner = "LibC", !.errno = e]

\* memstream::Error::MemStreamInvalid
MsInvalid == [NoResult EXCEPT !.tag = "Err", !.inner = "MemStreamInvalid"]

\* The two boxes are deallocated: their storage no longer exists.
DropCells(w, t) == [w EXCEPT !.buf[t] = Null, !.buf_size[t] = 0]

FpIsNull(h) == h = Null

InitFlushFailed(r) == r # 0

\* A mutant: the null check after the first flush is missing.
BufIsNullNever(p) == FALSE

BufIsNull(p) == p = Null

\* MemStream::new.  h, a, out, e: what open_memstream and the first fflush do;
\* a2, e2: what fclose does on the failure paths that call it.
MemStream_new(w, t, h, a, out, e, a2, e2) ==
    LET w0 == [w EXCEPT !.buf[t] = Null, !.buf_size[t] = 0]
        w1 == open_memstream(w0, t, h, a, e)
        f == w1.ret
    IN IF FpIsNull(f)
       THEN LET w2 == errno_read(w1, t)
            IN DropCells([w2 EXCEPT !.res = MsLibC(w2.ret)], t)
       ELSE LET w2 == fflush(w1, t, f, out, e)
            IN IF InitFlushFailed(w2.ret)
               THEN LET w3 == fclose(w2, t, f, a2, e2)
                        w4 == errno_read(w3, t)
                    IN DropCells([w4 EXCEPT !.res = MsLibC(w4.ret)], t)
               ELSE IF BufIsNull(w2.buf[t])
               THEN LET w3 == fclose(w2, t, f, a2, e2)
                    IN DropCells([w3 EXCEPT !.res = MsInvalid], t)
               ELSE [w2 EXCEPT !.fp[t] = f, !.res = MsOk]

\* The stream of the cells of thread t, when the buffer pointer is its live buffer.
LiveFile(w, t) ==
    {h \in Handles : w.files[h].open /\ w.files[h].cell = t /\ w.files[h].base = w.buf[t]}

\* The pointer as_ref builds its slice from points into memory that was released.
Dangling(w, t) == w.buf[t] # Null /\ w.buf_size[t] > 0 /\ LiveFile(w, t) = {}

\* What a slice over released memory can read: the bytes that were there, or
\* whatever the allocator put in their place.
StaleViews(w, t) ==
    LET n == w.buf_size[t]
        own == {h \in Handles : w.files[h].open /\ w.files[h].cell = t
                                /\ Len(w.files[h].data) >= n}
    IN {SubSeq(w.files[h].data, 1, n) : h \in own} \cup {[i \in 1..n |-> Garbage]}

\* as_ref: slice::from_raw_parts(buf, buf_size), the set of views it can yield.
as_ref(w, t) ==
    IF w.buf_size[t] = 0 THEN {<<>>}
    ELSE IF LiveFile(w, t) # {}
    THEN {SubSeq(w.files[h].data, 1, w.buf_size[t]) : h \in LiveFile(w, t)}
    ELSE StaleViews(w, t)

\* The as_ref call, in the history of thread t.
LogAsRef(w, t) ==
    [w EXCEPT !.ev[t] = Log(w, t, Event("as_ref", w.buf[t], w.buf_size[t],
                                        Dangling(w, t), ~Dangling(w, t)))]

\* A mutant of drop: the buffer is freed before the handle is closed.
DropFreeFirst(w, t, a2, e2) ==
    LET w1 == free(w, t, w.buf[t])
        w2 == fclose(w1, t, w1.fp[t], a2, e2)
    IN [w2 EXCEPT !.fp[t] = Null, !.buf[t] = Null, !.buf_size[t] = 0]

\* A mutant of drop: the buffer is never freed.
DropNoFree(w, t, a2, e2) ==
    LET w1 == fclose(w, t, w.fp[t], a2, e2)
    IN [w1 EXCEPT !.fp[t] = Null, !.buf[t] = Null, !.buf_size[t] = 0]

\* impl Drop for MemStream: fclose(fp), free(buf), then the three fields are zeroed.
Drop(w, t, a2, e2) ==
    LET w1 == fclose(w, t, w.fp[t], a2, e2)
        w2 == free(w1, t, w1.buf[t])
    IN [w2 EXCEPT !.fp[t] = Null, !.buf[t] = Null, !.buf_size[t] = 0]

(***************************************************************************)
(* malloc_info (src/lib.rs)                                                *)
(***************************************************************************)
\* ErrorRepr::Memstream(err), through #[from]
FromMemstream(r) == [r EXCEPT !.repr = "Memstream"]

\* ErrorRepr::LibC(errno), through #[from]
FromErrno(e) == [NoResult EXCEPT !.tag = "Err", !.repr = "LibC", !.errno = e]

\* A mutant: a decode failure is reported as a libc error.
FromDeErrorAsLibC(m) == [NoResult EXCEPT !.tag = "Err", !.repr = "LibC"]

\* ErrorRepr::Xml(err), through #[from]
FromDeError(m) == [NoResult EXCEPT !.tag = "Err", !.repr = "Xml", !.msg = m]

OkReport(v) == [NoResult EXCEPT !.tag = "Ok", !.val = <<v>>]

\* A mutant: every call uses the stream of thread 1 (a shared, static stream).
TargetFpShared(w, t) == w.fp[1]

\* cursor.get_mut().fp
TargetFp(w, t) == w.fp[t]

\* A mutant: the status of the introspection call is ignored.
MallocInfoFailedNever(r) == FALSE

MallocInfoFailed(r) == r # 0

\* A mutant: the status of the flush is ignored.
FflushFailedNever(r) == FALSE

FflushFailed(r) == r # 0

Commit(w) ==
    /\ fp' = w.fp
    /\ buf' = w.buf
    /\ buf_size' = w.buf_size
    /\ files' = w.files
    /\ alloc' = w.alloc
    /\ errno' = w.errno
    /\ ev' = w.ev

Stage(w, t, name, r) == [w EXCEPT !.ev[t] = Log(w, t, Event(name, Null, r, FALSE, TRUE))]

\* What the platform may do in a run: env.errnos, the error codes a failing call
\* sets; env.clobber, what fclose may leave in errno (0: untouched); env.anyfree,
\* the allocator may pick any free handle or address (otherwise the lowest);
\* env.moves, fclose may move the buffer; env.partial, a failing malloc_info may
\* stop after any prefix of the report (otherwise before its first byte).
EnvFull ==
    [errnos |-> Errnos, clobber |-> {0} \cup Errnos, anyfree |-> TRUE, moves |-> TRUE,
     partial |-> TRUE]

EnvConc ==
    [errnos |-> {1}, clobber |-> {0}, anyfree |-> TRUE, moves |-> FALSE,
     partial |-> FALSE]

Lowest(S) == {x \in S : \A y \in S : x <= y}

Pick(S, env) == IF env.anyfree THEN S ELSE Lowest(S)

Moves(S, env) == IF env.moves THEN Pick(S, env) \cup {Null} ELSE {Null}

\* let mem_stream = MemStream::new()?; let mut cursor = Cursor::new(mem_stream);
New(t, env) ==
    /\ pc[t] = "start"
    /\ \E h \in Pick(FreeHandles(World), env) \cup {Null},
          a \in Pick(FreeAddrs(World), env) \cup {Null},
          out \in {"ok", "fail", "null"}, e \in env.errnos, e2 \in env.clobber :
          \E a2 \in Moves(FreeAddrs(World) \ {a}, env) :
             LET w == MemStream_new(World, t, h, a, out, e, a2, e2)
                 ok == w.res.tag = "Ok"
             IN /\ Commit(Stage(w, t, "new", IF ok THEN 1 ELSE 0))
                /\ pc' = [pc EXCEPT ![t] = IF ok THEN "opened" ELSE "done"]
                /\ result' = [result EXCEPT ![t] = IF ok THEN @ ELSE FromMemstream(w.res)]
                /\ pos' = [pos EXCEPT ![t] = 0]
    /\ UNCHANGED <<view, doc, decoded, overlapped_lists>>

\* if libc::malloc_info(0, cursor.get_mut().fp) != 0 { return Err(errno().into()) }
Call(t, env) ==
    /\ pc[t] = "opened"
    /\ \E report \in Reports, out \in {"ok", "fail"},
          a \in Pick(FreeAddrs(World), env) \cup {Null}, e \in env.errnos :
          \E k \in IF env.partial THEN 0..Len(report) ELSE {0} :
             LET w == malloc_info_native(World, t, TargetFp(World, t), report, out, k, a, e)
                 failed == MallocInfoFailed(w.ret)
                 w1 == IF failed THEN errno_read(w, t) ELSE w
             IN /\ Commit(w1)
                /\ pc' = [pc EXCEPT ![t] = IF failed THEN "ret" ELSE "called"]
                /\ result' = [result EXCEPT ![t] = IF failed THEN FromErrno(w1.ret) ELSE @]
    /\ UNCHANGED <<pos, view, doc, decoded, overlapped_lists>>

\* if libc::fflush(cursor.get_mut().fp) != 0 { return Err(errno().into()) }
Flush(t, env) ==
    /\ pc[t] = "called"
    /\ \E out \in {"ok", "fail"}, e \in env.errnos :
          LET w == fflush(World, t, TargetFp(World, t), out, e)
              failed == FflushFailed(w.ret)
              w1 == IF failed THEN errno_read(w, t) ELSE w
          IN /\ Commit(w1)
             /\ pc' = [pc EXCEPT ![t] = IF failed THEN "ret" ELSE "flushed"]
             /\ result' = [result EXCEPT ![t] = IF failed THEN FromErrno(w1.ret) ELSE @]
    /\ UNCHANGED <<pos, view, doc, decoded, overlapped_lists>>

\* Ok(quick_xml::de::from_reader(&mut cursor)?): the cursor reads the stream's byte
\* view from its position to the end.
Decode(t) ==
    /\ pc[t] = "flushed"
    /\ \E v \in as_ref(World, t) :
          LET r == from_reader(SubSeq(v, pos[t] + 1, Len(v)), overlapped_lists)
              w == LogAsRef(World, t)
          IN /\ Commit(Stage(w, t, "from_reader", IF r.ok THEN 1 ELSE 0))
             /\ view' = [view EXCEPT ![t] = v]
             /\ pos' = [pos EXCEPT ![t] = Len(v)]
             /\ result' = [result EXCEPT ![t] = IF r.ok THEN OkReport(r.v[1])
                                                ELSE FromDeError(r.err)]
             /\ pc' = [pc EXCEPT ![t] = "ret"]
    /\ UNCHANGED <<doc, decoded, overlapped_lists>>

\* The function returns: the cursor, and the stream it owns, go out of scope.
Return(t, env) ==
    /\ pc[t] = "ret"
    /\ \E a2 \in Moves(FreeAddrs(World), env), e2 \in env.clobber :
          Commit(Drop(World, t, a2, e2))
    /\ pc' = [pc EXCEPT ![t] = "done"]
    /\ UNCHANGED <<pos, result, view, doc, decoded, overlapped_lists>>

NoDoc == Elem("", {}, <<>>)

NotDecoded == Err("not decoded")

InitStreams ==
    /\ fp = [t \in Threads |-> Null]
    /\ buf = [t \in Threads |-> Null]
    /\ buf_size = [t \in Threads |-> 0]
    /\ pos = [t \in Threads |-> 0]
    /\ files = [h \in Handles |-> ClosedFile]
    /\ alloc = [a \in Addrs |-> 0]
    /\ errno = [t \in Threads |-> 0]
    /\ result = [t \in Threads |-> NoResult]
    /\ ev = [t \in Threads |-> <<>>]
    /\ view = [t \in Threads |-> <<>>]

\* One call of malloc_info, on thread 1.
Init ==
    /\ InitStreams
    /\ pc = [t \in Threads |-> IF t = 1 THEN "start" ELSE "idle"]
    /\ doc = NoDoc
    /\ decoded = NotDecoded
    /\ overlapped_lists \in BOOLEAN

\* Two calls of malloc_info, one on each thread.
InitConc ==
    /\ InitStreams
    /\ pc = [t \in Threads |-> "start"]
    /\ doc = NoDoc
    /\ decoded = NotDecoded
    /\ overlapped_lists = FALSE

Next ==
    \E t \in Threads :
        \/ New(t, EnvFull)
        \/ Call(t, EnvFull)
        \/ Flush(t, EnvFull)
        \/ Decode(t)
        \/ Return(t, EnvFull)

Spec == Init /\ [][Next]_vars

NextConc ==
    \E t \in Threads :
        \/ New(t, EnvConc)
        \/ Call(t, EnvConc)
        \/ Flush(t, EnvConc)
        \/ Decode(t)
        \/ Return(t, EnvConc)

SpecConc == InitConc /\ [][NextConc]_vars

(***************************************************************************)
(* The stream used directly, as the tests of src/memstream.rs do: any      *)
(* sequence of new, fwrite, fflush, as_ref and drop on one stream, the     *)
(* drop possibly run again on the dropped value (ptr::drop_in_place).      *)
(***************************************************************************)
ByteA == Elem("a", {}, <<>>)

ByteB == Elem("b", {}, <<>>)

Writes == {<<ByteA>>, <<ByteB>>, <<ByteA, ByteB, ByteA>>}

InitStream ==
    /\ InitStreams
    /\ pc = [t \in Threads |-> IF t = 1 THEN "s_none" ELSE "idle"]
    /\ doc = NoDoc
    /\ decoded = NotDecoded
    /\ overlapped_lists = FALSE

\* let stream = MemStream::new().unwrap();
SNew ==
    /\ pc[1] = "s_none"
    /\ Len(ev[1]) < MaxOps
    /\ \E h \in FreeHandles(World) \cup {Null}, a \in FreeAddrs(World) \cup {Null},
          out \in {"ok", "fail", "null"}, e \in Errnos :
          LET w == MemStream_new(World, 1, h, a, out, e, Null, 0)
              ok == w.res.tag = "Ok"
          IN /\ Commit(Stage(w, 1, "new", IF ok THEN 1 ELSE 0))
             /\ pc' = [pc EXCEPT ![1] = IF ok THEN "s_open" ELSE "s_none"]
    /\ UNCHANGED <<pos, result, view, doc, decoded, overlapped_lists>>

\* libc::fwrite(text.as_ptr() as _, 1, text.len(), stream.fp);
SWrite ==
    /\ pc[1] = "s_open"
    /\ Len(ev[1]) < MaxOps
    /\ \E bytes \in Writes, a \in FreeAddrs(World) \cup {Null} :
          /\ Len(files[fp[1]].data) + Len(bytes) <= MaxData
          /\ Commit(write(World, 1, fp[1], bytes, a))
    /\ UNCHANGED <<pc, pos, result, view, doc, decoded, overlapped_lists>>

\* libc::fflush(stream.fp);
SFlush ==
    /\ pc[1] = "s_open"
    /\ Len(ev[1]) < MaxOps
    /\ \E out \in {"ok", "fail"}, e \in Errnos : Commit(fflush(World, 1, fp[1], out, e))
    /\ UNCHANGED <<pc, pos, result, view, doc, decoded, overlapped_lists>>

\* stream.as_ref()
SAsRef ==
    /\ pc[1] \in {"s_open", "s_dropped"}
    /\ Len(ev[1]) < MaxOps
    /\ \E v \in as_ref(World, 1) :
          /\ Commit(LogAsRef(World, 1))
          /\ view' = [view EXCEPT ![1] = v]
    /\ UNCHANGED <<pc, pos, result, doc, decoded, overlapped_lists>>

\* std::ptr::drop_in_place(pms), or the value going out of scope
SDrop ==
    /\ pc[1] \in {"s_open", "s_dropped"}
    /\ Len(ev[1]) < MaxOps
    /\ \E a2 \in FreeAddrs(World) \cup {Null} : Commit(Drop(World, 1, a2, 0))
    /\ pc' = [pc EXCEPT ![1] = "s_dropped"]
    /\ UNCHANGED <<pos, result, view, doc, decoded, overlapped_lists>>

NextStream == SNew \/ SWrite \/ SFlush \/ SAsRef \/ SDrop

SpecStream == InitStream /\ [][NextStream]_vars

(***************************************************************************)
(* The decoder alone, as the tests of src/info.rs use it: a document is    *)
(* built child by child and handed to quick_xml::de::from_str.             *)
(***************************************************************************)
RootChildren ==
    {HeapPlain, HeapEmptySizes, HeapBuckets,
     TotalEl("fast", "0", "0"), TotalEl("new", "1", "2"), TotalEl("rest", "x", "0"),
     SystemEl("current", "32"), AspaceEl("total", "32")}

InitIdle ==
    /\ InitStreams
    /\ pc = [t \in Threads |-> "idle"]

InitDecode ==
    /\ InitIdle
    /\ \E version \in {V1, {}} : doc = Elem("malloc", version, <<>>)
    /\ decoded = NotDecoded
    /\ overlapped_lists \in BOOLEAN

\* One more child element at the end of the root element.
AddChild ==
    /\ decoded = NotDecoded
    /\ Len(doc.kids) < MaxChildren
    /\ \E e \in RootChildren : doc' = [doc EXCEPT !.kids = Append(@, e)]
    /\ UNCHANGED <<streamVars, decoded, overlapped_lists>>

\* let parsed: Malloc = quick_xml::de::from_str(XML)
DecodeDoc ==
    /\ decoded = NotDecoded
    /\ decoded' = Malloc_de(doc, overlapped_lists)
    /\ UNCHANGED <<streamVars, doc, overlapped_lists>>

NextDecode == AddChild \/ DecodeDoc

SpecDecode == InitDecode /\ [][NextDecode]_vars

(***************************************************************************)
(* One aggregate element decoded on its own: every combination of element  *)
(* name, type text and numeric texts.                                      *)
(***************************************************************************)
TypeTexts ==
    {"fast", "rest", "mmap", "current", "max", "total", "mprotect", "subheaps",
     "Fast", "TOTAL", "sub-heaps", "other", "new", ""}

NumTexts == {"0", "01", "-1", "x"}

KnownTypes(n) ==
    CASE n = "total" -> {"fast", "rest", "mmap"}
      [] n = "system" -> {"current", "max"}
      [] n = "aspace" -> {"total", "mprotect", "subheaps"}

Aggregate_de(e) ==
    CASE e.name = "total" -> Total_de(e)
      [] e.name = "system" -> System_de(e)
      [] e.name = "aspace" -> Aspace_de(e)

InitElem ==
    /\ InitIdle
    /\ \E n \in {"total", "system", "aspace"}, ty \in TypeTexts, ct \in NumTexts,
          sz \in NumTexts, typed \in BOOLEAN :
          doc = Elem(n, (IF typed THEN {<<"type", ty>>} ELSE {})
                        \cup {<<"count", ct>>, <<"size", sz>>}, <<>>)
    /\ decoded = NotDecoded
    /\ overlapped_lists = FALSE

DecodeElem ==
    /\ decoded = NotDecoded
    /\ decoded' = Aggregate_de(doc)
    /\ UNCHANGED <<streamVars, doc, overlapped_lists>>

NextElem == DecodeElem

SpecElem == InitElem /\ [][NextElem]_vars

(***************************************************************************)
(* One heap element decoded on its own: its sizes section is built bucket  *)
(* by bucket, from every combination of element name and "from" text.      *)
(***************************************************************************)
BucketNames == {"size", "unsorted", "Size", "bin"}

Buckets == {Bucket(n, fr, "32") : n \in BucketNames, fr \in {"1", "x"}}

InitSizes ==
    /\ InitIdle
    /\ doc = HeapEl("0", <<SizesEl(<<>>)>>)
    /\ decoded = NotDecoded
    /\ overlapped_lists = FALSE

\* One more bucket element at the end of the sizes section.
AddBucket ==
    /\ decoded = NotDecoded
    /\ Len(doc.kids[1].kids) < MaxBuckets
    /\ \E b \in Buckets : doc' = [doc EXCEPT !.kids[1].kids = Append(@, b)]
    /\ UNCHANGED <<streamVars, decoded, overlapped_lists>>

DecodeHeap ==
    /\ decoded = NotDecoded
    /\ decoded' = Heap_de(doc)
    /\ UNCHANGED <<streamVars, doc, overlapped_lists>>

NextSizes == AddBucket \/ DecodeHeap

SpecSizes == InitSizes /\ [][NextSizes]_vars

(***************************************************************************)
(* Reading a thread's history                                              *)
(***************************************************************************)
Idx(L, o) == {i \in 1..Len(L) : L[i].op = o}

\* MemStream::new returned Ok in history L.
NewOk(L) == \E i \in Idx(L, "new") : L[i].ret = 1

NewFailed(L) == \E i \in Idx(L, "new") : L[i].ret = 0

\* The events after MemStream::new returned.
AfterNew(L) ==
    IF Idx(L, "new") = {} THEN <<>>
    ELSE SubSeq(L, (CHOOSE i \in Idx(L, "new") : TRUE) + 1, Len(L))

IsStage(e) == e.op \in {"malloc_info", "fflush", "from_reader"}

\* The stages run after the open stage, as events, in the order they ran.
Stages(L) == SelectSeq(AfterNew(L), IsStage)

StageOps(L) == [i \in 1..Len(Stages(L)) |-> Stages(L)[i].op]

StageFailed(e) == IF e.op = "from_reader" THEN e.ret = 0 ELSE e.ret # 0

IsPrefix(p, q) == Len(p) <= Len(q) /\ \A i \in 1..Len(p) : p[i] = q[i]

\* The spec's three error kinds.
Kind(r) ==
    CASE r.repr = "LibC" -> "LibraryCall"
      [] r.repr = "Memstream" /\ r.inner = "LibC" -> "LibraryCall"
      [] r.repr = "Memstream" /\ r.inner = "MemStreamInvalid" -> "InvalidState"
      [] r.repr = "Xml" -> "Parse"
      [] OTHER -> "none"

(***************************************************************************)
(* C1: whenever malloc_info returns after the stream was opened, on every  *)
(* exit path, the handle has been closed exactly once and the buffer freed *)
(* exactly once, the close before the free, and neither was undefined      *)
(* behaviour: nothing of the stream is left open or allocated.             *)
(***************************************************************************)
C1_ReleasedExactlyOnce ==
    \A t \in Threads :
        (pc[t] = "done" /\ NewOk(ev[t])) =>
            LET L == ev[t]
                closes == Idx(L, "fclose")
                frees == Idx(L, "free")
            IN /\ Cardinality(closes) = 1
               /\ Cardinality(frees) = 1
               /\ \A i \in closes : ~L[i].ub /\ L[i].arg = L[1].ret
               /\ \A j \in frees : ~L[j].ub /\ L[j].arg # Null
               /\ \A i \in closes, j \in frees : i < j
               /\ \A h \in Handles : ~(files[h].open /\ files[h].cell = t)
               /\ \A a \in Addrs : alloc[a] # t

\* malloc_info returned after a failed introspection call, with the stream released.
C1_Witness ==
    /\ pc[1] = "done"
    /\ NewOk(ev[1])
    /\ \E i \in Idx(ev[1], "malloc_info") : ev[1][i].ret # 0
    /\ Idx(ev[1], "free") # {}

(***************************************************************************)
(* C2: the stages run in the order open, introspection call, flush,        *)
(* decode, each at most once, and the first failing stage is the last one  *)
(* to run; a failed decode yields no report.                               *)
(***************************************************************************)
C2_StagesInOrderFailFast ==
    \A t \in Threads :
        LET L == ev[t]
            S == Stages(L)
        IN /\ Cardinality(Idx(L, "open_memstream")) <= 1
           /\ Cardinality(Idx(L, "new")) <= 1
           /\ Idx(L, "new") = {} => Idx(L, "malloc_info") \cup Idx(L, "from_reader") = {}
           /\ NewFailed(L) => Len(AfterNew(L)) = 0
           /\ IsPrefix(StageOps(L), <<"malloc_info", "fflush", "from_reader">>)
           /\ \A i \in 1..Len(S) : StageFailed(S[i]) => i = Len(S)
           /\ \A i \in 1..Len(S) :
                  (S[i].op = "from_reader" /\ S[i].ret = 0) => result[t].val = <<>>

\* A run in which the flush after the introspection call failed.
C2_Witness ==
    /\ pc[1] = "done"
    /\ StageOps(ev[1]) = <<"malloc_info", "fflush">>
    /\ ev[1][Len(ev[1])].op = "free"

(***************************************************************************)
(* C3: malloc_info returns either a report or one error whose kind is that *)
(* of the stage that failed: LibraryCall or InvalidState for the open,     *)
(* LibraryCall with the errno of the failing call for the introspection    *)
(* call and the flush, Parse for the decode; no failure returns a report.  *)
(***************************************************************************)
C3_OneOutcomePerStage ==
    \A t \in Threads :
        pc[t] = "done" =>
            LET L == ev[t]
                S == Stages(L)
                r == result[t]
                failed == {i \in 1..Len(S) : StageFailed(S[i])}
            IN /\ r.tag \in {"Ok", "Err"}
               /\ r.tag = "Ok" <=> Len(r.val) = 1
               /\ r.tag = "Ok" <=> Kind(r) = "none"
               /\ NewFailed(L) => r.tag = "Err" /\ Kind(r) \in {"LibraryCall", "InvalidState"}
               /\ \A i \in failed :
                      /\ r.tag = "Err"
                      /\ S[i].op \in {"malloc_info", "fflush"} =>
                             r.repr = "LibC" /\ r.errno = S[i].err
                      /\ S[i].op = "from_reader" => Kind(r) = "Parse"
               /\ (NewOk(L) /\ failed = {}) =>
                      r.tag = "Ok" /\ StageOps(L) = <<"malloc_info", "fflush", "from_reader">>

\* A run that ended in a Parse error.
C3_Witness == pc[1] = "done" /\ Kind(result[1]) = "Parse"

(***************************************************************************)
(* C5: MemStream::new returns a stream only when open_memstream returned a *)
(* handle, the first flush returned 0 and the buffer pointer is not null;  *)
(* it fails with LibC when the handle is null or the flush fails, and with *)
(* MemStreamInvalid when both succeeded (the pointer is still null).       *)
(***************************************************************************)
C5_NewPostcondition ==
    \A t \in Threads :
        LET L == ev[t]
        IN /\ (NewOk(L) /\ pc[t] = "opened") =>
                  /\ fp[t] # Null
                  /\ buf[t] # Null
                  /\ L[1].op = "open_memstream" /\ L[1].ret = fp[t]
                  /\ L[2].op = "fflush" /\ L[2].ret = 0 /\ L[2].arg = fp[t]
                  /\ Len(L) = 3
           /\ NewFailed(L) =>
                  /\ fp[t] = Null
                  /\ result[t].tag = "Err" /\ result[t].repr = "Memstream"
                  /\ L[1].op = "open_memstream"
                  /\ L[1].ret = Null => result[t].inner = "LibC"
                  /\ (L[1].ret # Null /\ L[2].ret # 0) => result[t].inner = "LibC"
                  /\ (L[1].ret # Null /\ L[2].ret = 0) => result[t].inner = "MemStreamInvalid"

\* MemStream::new failed with MemStreamInvalid.
C5_Witness == NewFailed(ev[1]) /\ result[1].inner = "MemStreamInvalid"

\* The bytes the write events among the first n events of L stored, in order.
RECURSIVE Written(_, _)
Written(L, n) ==
    IF n = 0 THEN <<>>
    ELSE Written(L, n - 1) \o (IF L[n].op = "write" THEN L[n].data ELSE <<>>)

\* The position in L of the most recent flush that returned 0 (0: none).
LastFlush(L) ==
    LET F == {i \in Idx(L, "fflush") : L[i].ret = 0 /\ ~L[i].ub}
    IN IF F = {} THEN 0 ELSE CHOOSE i \in F : \A j \in F : j <= i

\* The bytes written before the most recent flush.
Flushed(L) == Written(L, LastFlush(L))

(***************************************************************************)
(* C4: on an open stream, after any sequence of writes and flushes, the    *)
(* view as_ref returns is exactly the bytes written before the most recent *)
(* flush.                                                                  *)
(***************************************************************************)
C4_ViewIsFlushedBytes ==
    (pc[1] = "s_open" /\ Len(ev[1]) > 0 /\ ev[1][Len(ev[1])].op = "as_ref") =>
        view[1] = Flushed(ev[1])

\* The same, while the buffer has not moved since the last flush.
C4_ViewIsFlushedBytesUnmoved ==
    (pc[1] = "s_open" /\ Len(ev[1]) > 0 /\ ev[1][Len(ev[1])].op = "as_ref"
     /\ ~ev[1][Len(ev[1])].ub) =>
        view[1] = Flushed(ev[1])

(***************************************************************************)
(* C6: after destruction the handle and the buffer pointer are null, the   *)
(* length is 0 and the view is empty, and destroying the stream again      *)
(* closes nothing, frees nothing and hands no invalid handle to fclose.    *)
(***************************************************************************)
C6_DestructionIdempotent ==
    pc[1] = "s_dropped" =>
        /\ fp[1] = Null
        /\ buf[1] = Null
        /\ buf_size[1] = 0
        /\ as_ref(World, 1) = {<<>>}
        /\ \A i \in Idx(ev[1], "fclose") : ~ev[1][i].ub
        /\ \A i \in Idx(ev[1], "free") : ~ev[1][i].ub
        /\ Cardinality({i \in Idx(AfterNew(ev[1]), "fclose") : TRUE}) = 1

(***************************************************************************)
(* C7: with two calls of malloc_info running on two threads, every native  *)
(* call a thread makes is on its own handle or buffer, the two streams     *)
(* never share a handle, and what a thread decodes is what its own         *)
(* introspection call wrote.                                               *)
(***************************************************************************)
C7_Isolation ==
    /\ \A t \in Threads : \A i \in 1..Len(ev[t]) : ev[t][i].own /\ ~ev[t][i].ub
    /\ \A t, u \in Threads :
           (t # u /\ fp[t] # Null /\ fp[u] # Null) => fp[t] # fp[u]
    /\ \A t \in Threads : \A h \in Handles :
           (files[h].open /\ files[h].cell = t) => fp[t] = h \/ pc[t] = "start"
    /\ \A t \in Threads :
           Idx(ev[t], "from_reader") # {} => view[t] = Written(ev[t], Len(ev[t]))

\* Both calls have their stream open and written at the same time, and one has
\* decoded its report while the other has not yet.
C7_Witness ==
    /\ pc[1] = "ret" /\ result[1].tag = "Ok"
    /\ pc[2] = "flushed"
    /\ fp[1] # Null /\ fp[2] # Null

(***************************************************************************)
(* C8: a Total, System or Aspace element whose type text is not one of the *)
(* known values of its enumeration decodes, with tag Other; a known value  *)
(* decodes to its own variant, never to Other; the type text never makes   *)
(* the decode fail.                                                        *)
(***************************************************************************)
NumericOk(e) ==
    /\ \E p \in UsizeText : p[1] = Attr(e, "size")
    /\ e.name = "total" => \E p \in UsizeText : p[1] = Attr(e, "count")

VariantOf(s) ==
    CASE s = "fast" -> "Fast" [] s = "rest" -> "Rest" [] s = "mmap" -> "Mmap"
      [] s = "current" -> "Current" [] s = "max" -> "Max" [] s = "total" -> "Total"
      [] s = "mprotect" -> "Mprotect" [] s = "subheaps" -> "Subheaps"

C8_UnknownTypeIsOther ==
    (decoded # NotDecoded /\ HasAttr(doc, "type")) =>
        LET ty == Attr(doc, "type")
        IN /\ NumericOk(doc) <=> decoded.ok
           /\ (decoded.ok /\ ty \notin KnownTypes(doc.name)) => decoded.v[1].type = "Other"
           /\ (decoded.ok /\ ty \in KnownTypes(doc.name)) => decoded.v[1].type = VariantOf(ty)

\* A total element of a type only the aspace enumeration knows, decoded as Other.
C8_Witness ==
    /\ decoded.ok
    /\ doc.name = "total"
    /\ HasAttr(doc, "type") /\ Attr(doc, "type") = "total"
    /\ decoded.v[1].type = "Other"

(***************************************************************************)
(* C9: a decoded report holds one Heap per heap child of the root, in      *)
(* document order, and its total, system and aspace sequences hold exactly *)
(* the children of the root of those names, in document order; elements of *)
(* the same names inside a heap are not among them.                        *)
(***************************************************************************)
Num(s) == (CHOOSE p \in UsizeText : p[1] = s)[2]

BucketRecord(e) ==
    [variant |-> IF e.name = "size" THEN "Size" ELSE "Unsorted",
     from |-> Num(Attr(e, "from")), to |-> Num(Attr(e, "to")),
     total |-> Num(Attr(e, "total")), count |-> Num(Attr(e, "count"))]

SizesShapes(emptySection) ==
    decoded.ok =>
        LET hs == Named(doc.kids, "heap")
        IN \A i \in 1..Len(hs) :
               LET d == decoded.v[1].heaps[i]
                   ss == Named(hs[i].kids, "sizes")
               IN /\ ss = <<>> => d.sizes = None
                  /\ (ss # <<>> /\ ss[1].kids = <<>>) => d.sizes = Some([sizes |-> emptySection])
                  /\ (ss # <<>> /\ ss[1].kids # <<>>) =>
                         d.sizes = Some([sizes |-> Some([j \in 1..Len(ss[1].kids) |->
                                                            BucketRecord(ss[1].kids[j])])])

C10_EmptySectionIsEmptySequence == SizesShapes(Some(<<>>))

\* C10 as amended: the present section of a sizes child with no bucket holds no
\* sequence (Sizes.sizes is None), not an empty one.
C10_EmptySectionHoldsNone == SizesShapes(None)

\* A decoded report with a heap whose sizes section is empty and a heap with two
\* buckets.
C10_Witness ==
    /\ decoded.ok
    /\ Len(decoded.v[1].heaps) = 2
    /\ doc.kids[1] = HeapEmptySizes
    /\ decoded.v[1].heaps[1].sizes = Some([sizes |-> None])
    /\ doc.kids[2] = HeapBuckets
    /\ Len(decoded.v[1].heaps[2].sizes[1].sizes[1]) = 2
    /\ decoded.v[1].heaps[2].sizes[1].sizes[1][1].variant = "Size"
    /\ decoded.v[1].heaps[2].sizes[1].sizes[1][2].variant = "Unsorted"

(***************************************************************************)
(* C11: a root element with no child elements does not decode, with or     *)
(* without a version attribute, and a decoded report never holds a version *)
(* or a sequence the decoder made up: the version is the root's attribute  *)
(* and each of the four sequences has an element of the document behind it. *)
(***************************************************************************)
C11_NothingDefaulted ==
    decoded # NotDecoded =>
        /\ doc.kids = <<>> => ~decoded.ok /\ decoded.err = "missing field"
        /\ decoded.ok =>
               /\ HasAttr(doc, "version")
               /\ decoded.v[1].version = Attr(doc, "version")
               /\ \A n \in {"heap", "total", "system", "aspace"} : Named(doc.kids, n) # <<>>
               /\ decoded.v[1].heaps # <<>>
               /\ decoded.v[1].total # <<>>
               /\ decoded.v[1].system # <<>>
               /\ decoded.v[1].aspace # <<>>

\* The document of test::parse_invalid, decoded: a root with a version and no child.
C11_Witness ==
    /\ decoded # NotDecoded
    /\ doc = Elem("malloc", V1, <<>>)
    /\ ~decoded.ok

\* MemStream::new failed in history L after open_memstream had returned a handle.
NewFailedAfterOpen(L) ==
    NewFailed(L) /\ L[1].op = "open_memstream" /\ L[1].ret # Null

(***************************************************************************)
(* C12: when MemStream::new fails after open_memstream returned a handle,  *)
(* the handle has been closed exactly once and no buffer of that stream is *)
(* still allocated when new returns; nothing is closed or freed twice.     *)
(***************************************************************************)
C12_NewFailureLeakFree ==
    \A t \in Threads :
        NewFailedAfterOpen(ev[t]) =>
            LET L == ev[t]
            IN /\ Cardinality(Idx(L, "fclose")) = 1
               /\ \A i \in Idx(L, "fclose") : ~L[i].ub /\ L[i].arg = L[1].ret
               /\ \A j \in Idx(L, "free") : ~L[j].ub
               /\ \A h \in Handles : ~(files[h].open /\ files[h].cell = t)
               /\ \A a \in Addrs : alloc[a] # t

\* The part of it that holds: the handle is closed exactly once, nothing twice.
C12_NewFailureClosesOnce ==
    \A t \in Threads :
        NewFailedAfterOpen(ev[t]) =>
            LET L == ev[t]
            IN /\ Cardinality(Idx(L, "fclose")) = 1
               /\ \A i \in Idx(L, "fclose") : ~L[i].ub /\ L[i].arg = L[1].ret
               /\ \A j \in Idx(L, "free") : ~L[j].ub
               /\ \A h \in Handles : ~(files[h].open /\ files[h].cell = t)

\* The native calls of history L that failed with a platform error code.
FailedCalls(L) ==
    {i \in 1..Len(L) :
        \/ L[i].op = "open_memstream" /\ L[i].ret = Null
        \/ L[i].op \in {"fflush", "malloc_info"} /\ L[i].ret # 0}

(***************************************************************************)
(* C13: after every failing native call (open_memstream returning null,    *)
(* the first flush, the introspection call, the flush after it) the next   *)
(* thing the thread does is read errno, with no native call in between,    *)
(* and the code in the returned error is the one the failing call set.     *)
(***************************************************************************)
C13_ErrnoReadImmediately ==
    \A t \in Threads :
        LET L == ev[t]
        IN \A i \in FailedCalls(L) :
               /\ i < Len(L)
               /\ L[i + 1].op = "errno"
               /\ L[i + 1].ret = L[i].err
               /\ result[t].errno = L[i].err

\* The same for the calls whose failure is not followed by a close: all but the
\* first flush inside MemStream::new.
C13_ErrnoReadImmediatelyNoClose ==
    \A t \in Threads :
        LET L == ev[t]
        IN \A i \in FailedCalls(L) :
               (i < Len(L) /\ L[i + 1].op # "fclose") =>
                   /\ L[i + 1].op = "errno"
                   /\ L[i + 1].ret = L[i].err
                   /\ result[t].errno = L[i].err

(***************************************************************************)
(* C14: whenever the decode runs, the introspection call has returned 0, a *)
(* flush after it has returned 0, nothing was written after that flush,    *)
(* and the stream has been neither closed nor freed; what the decoder was  *)
(* given is the whole report the introspection call wrote, from its first  *)
(* byte, and the result is the decoding of exactly those bytes.            *)
(***************************************************************************)
C14_DecodeSeesWholeReport ==
    \A t \in Threads :
        LET L == ev[t]
        IN \A i \in Idx(L, "from_reader") :
               /\ \E k, j \in 1..i :
                      /\ k < j
                      /\ L[k].op = "malloc_info" /\ L[k].ret = 0 /\ ~L[k].ub
                      /\ L[j].op = "fflush" /\ L[j].ret = 0 /\ ~L[j].ub
                      /\ L[j].arg = L[k].arg
                      /\ \A m \in (j + 1)..i : L[m].op \notin {"write", "malloc_info"}
               /\ \A m \in 1..i : L[m].op \notin {"fclose", "free"}
               /\ L[i - 1].op = "as_ref" /\ ~L[i - 1].ub
               /\ Written(L, i) \in Reports
               /\ view[t] = Written(L, i)
               /\ LET r == from_reader(Written(L, i), overlapped_lists)
                  IN /\ L[i].ret = (IF r.ok THEN 1 ELSE 0)
                     /\ r.ok => result[t] = OkReport(r.v[1])
                     /\ ~r.ok => result[t].tag = "Err" /\ result[t].msg = r.err

\* The decode has run on the full report and returned it decoded; the stream is
\* still open.
C14_Witness ==
    /\ pc[1] = "ret"
    /\ Idx(ev[1], "from_reader") # {}
    /\ view[1] = GoodReport
    /\ result[1].tag = "Ok"
    /\ fp[1] # Null /\ files[fp[1]].open

\* Address p was a buffer of thread t's stream and has been released.
Freed(p, t) == p # Null /\ alloc[p] # t

(***************************************************************************)
(* C15: in every state of a stream, whatever was opened, written, flushed, *)
(* viewed and destroyed, a buffer pointer that is null or points to freed  *)
(* memory goes with length 0; as_ref covers exactly buf_size bytes, is     *)
(* empty when buf_size is 0, and never reads freed memory.                 *)
(***************************************************************************)
C15_NoDanglingView ==
    pc[1] \in {"s_open", "s_dropped"} =>
        /\ (buf[1] = Null \/ Freed(buf[1], 1)) => buf_size[1] = 0
        /\ \A i \in Idx(ev[1], "as_ref") : ~ev[1][i].ub
        /\ (Len(ev[1]) > 0 /\ ev[1][Len(ev[1])].op = "as_ref") => Len(view[1]) = buf_size[1]

\* The part of it that holds: a null pointer goes with length 0, and the view has
\* exactly buf_size bytes.
C15_NullHasLengthZero ==
    pc[1] \in {"s_open", "s_dropped"} =>
        /\ buf[1] = Null => buf_size[1] = 0
        /\ buf_size[1] = 0 => as_ref(World, 1) = {<<>>}
        /\ (Len(ev[1]) > 0 /\ ev[1][Len(ev[1])].op = "as_ref") => Len(view[1]) = buf_size[1]

\* The attribute texts of bucket element e are numbers.
BucketNumericOk(e) ==
    \A k \in {"from", "to", "total", "count"} : \E p \in UsizeText : p[1] = Attr(e, k)

\* The record of a bucket element, its variant taken from the element's name, v
\* the variant of a name that is neither size nor unsorted.
BucketRecordOr(e, v) ==
    [variant |-> CASE e.name = "size" -> "Size" [] e.name = "unsorted" -> "Unsorted"
                   [] OTHER -> v,
     from |-> Num(Attr(e, "from")), to |-> Num(Attr(e, "to")),
     total |-> Num(Attr(e, "total")), count |-> Num(Attr(e, "count"))]

(***************************************************************************)
(* C16: inside a sizes section the variant of a bucket is given by its     *)
(* element name, its four attributes are decoded the same way whatever the *)
(* variant, and a bucket of an unknown name decodes to the variant Other:  *)
(* the name of a bucket never makes the decode fail.                       *)
(***************************************************************************)
C16_UnknownBucketIsOther ==
    (decoded # NotDecoded /\ doc.name = "heap") =>
        LET bs == doc.kids[1].kids
        IN /\ decoded.ok <=> \A i \in 1..Len(bs) : BucketNumericOk(bs[i])
           /\ (decoded.ok /\ bs # <<>>) =>
                  decoded.v[1].sizes[1].sizes[1] =
                      [i \in 1..Len(bs) |-> BucketRecordOr(bs[i], "Other")]

\* The same for sections whose buckets are all named size or unsorted.
C16_KnownBucketVariantByName ==
    (decoded # NotDecoded /\ doc.name = "heap"
     /\ \A i \in 1..Len(doc.kids[1].kids) : doc.kids[1].kids[i].name \in {"size", "unsorted"}) =>
        LET bs == doc.kids[1].kids
        IN /\ decoded.ok <=> \A i \in 1..Len(bs) : BucketNumericOk(bs[i])
           /\ (decoded.ok /\ bs # <<>>) =>
                  decoded.v[1].sizes[1].sizes[1] =
                      [i \in 1..Len(bs) |-> BucketRecordOr(bs[i], "Other")]

\* A bucket of an unknown name fails the decode of the heap that holds it.
C16_UnknownBucketFails ==
    (decoded # NotDecoded /\ doc.name = "heap"
     /\ \E i \in 1..Len(doc.kids[1].kids) : doc.kids[1].kids[i].name \notin {"size", "unsorted"}) =>
        ~decoded.ok

====
